---- MODULE Spec2Model ----
(***************************************************************************)
(* Model of hbonds.py (bkellerlab/track_waters): hydrogen-bond labelling,   *)
(* frequency matrix, participant timeline and water index remapping.       *)
(*                                                                         *)
(* A Python str is a sequence of one-character strings, so that the        *)
(* regular-expression search and ord() of _resseq_finder, and the string   *)
(* concatenation of convert_hb_atom, are computed character by character.  *)
(* A float quotient a / b is the record [num |-> a, den |-> b].            *)
(* A raised exception is the exc field of the returned record.             *)
(***************************************************************************)
EXTENDS Integers, Sequences, FiniteSets, TLC

VARIABLES
    pc,            \* "start" between calls, else the operation that has just returned
    ret,           \* its arguments and what it returned or raised
    hbond_trjs,    \* labelled hbond trajectories (hbond_matrix, hbond_timeline, ...)
    atom_mapping,  \* caller's dict passed to map_w_to_index (insertion-ordered)
    wrid_whole,    \* the loaded water index table of map_w_to_index
    wlet_mapping   \* water letter mapping passed to convert_hb_atom / hbond_to_string

vars == <<pc, ret, hbond_trjs, atom_mapping, wrid_whole, wlet_mapping>>

(***************************************************************************)
(* Bounds of the explored inputs.                                          *)
(***************************************************************************)
MaxFrames == 3      \* total frames over all labelled trajectories
MaxBonds == 2       \* total bonds over all frames of the labelled trajectories
NFrames == 2        \* frames of the trajectory t of the labelling and remapping calls

(***************************************************************************)
(* Python built-ins on sequences and strings.                              *)
(***************************************************************************)
Range(q) == {q[i] : i \in 1..Len(q)}

InSeq(x, q) == \E i \in 1..Len(q) : q[i] = x

\* list.index(x): position of the first occurrence (1-based here)
IndexOf(q, x) == CHOOSE i \in 1..Len(q) : q[i] = x /\ \A j \in 1..(i - 1) : q[j] # x

SetMin(S) == CHOOSE x \in S : \A y \in S : x <= y

SetMax(S) == CHOOSE x \in S : \A y \in S : x >= y

RECURSIVE SumSeq(_)
SumSeq(q) == IF q = <<>> THEN 0 ELSE Head(q) + SumSeq(Tail(q))

RECURSIVE Concat(_)
Concat(qq) == IF qq = <<>> THEN <<>> ELSE Head(qq) \o Concat(Tail(qq))

Lower == <<"a", "b", "c", "d", "e", "f", "g", "h", "i", "j", "k", "l", "m",
           "n", "o", "p", "q", "r", "s", "t", "u", "v", "w", "x", "y", "z">>

Upper == <<"A", "B", "C", "D", "E", "F", "G", "H", "I", "J", "K", "L", "M",
           "N", "O", "P", "Q", "R", "S", "T", "U", "V", "W", "X", "Y", "Z">>

Digits == <<"0", "1", "2", "3", "4", "5", "6", "7", "8", "9">>

IsDigit(c) == InSeq(c, Digits)

DigitVal(c) == IndexOf(Digits, c) - 1

\* ord() of a one-character string (ASCII letters, digits and '-')
Ord(c) ==
    IF InSeq(c, Lower) THEN 96 + IndexOf(Lower, c)
    ELSE IF InSeq(c, Upper) THEN 64 + IndexOf(Upper, c)
    ELSE IF InSeq(c, Digits) THEN 47 + IndexOf(Digits, c)
    ELSE 45

\* int() of a string of decimal digits
RECURSIVE ParseInt(_, _)
ParseInt(ds, acc) ==
    IF ds = <<>> THEN acc ELSE ParseInt(Tail(ds), 10 * acc + DigitVal(Head(ds)))

\* str() of a non-negative int
RECURSIVE IntToStr(_)
IntToStr(n) ==
    IF n < 10 THEN <<Digits[n + 1]>>
    ELSE IntToStr(n \div 10) \o <<Digits[(n % 10) + 1]>>

\* re.search(r'[0-9]+', s): the leftmost, longest run of digits (<<>> for no match)
DigitRun(str) ==
    LET ds == {i \in 1..Len(str) : IsDigit(str[i])}
    IN IF ds = {} THEN <<>>
       ELSE LET lo == SetMin(ds)
                hi == SetMax({j \in lo..Len(str) : \A k \in lo..j : IsDigit(str[k])})
            IN SubSeq(str, lo, hi)

(***************************************************************************)
(* _resseq_finder: the sort key of a label.  ord(s) takes the whole        *)
(* string and raises TypeError unless it has exactly one character.        *)
(***************************************************************************)
OrdOfString(str) ==
    IF Len(str) = 1 THEN [exc |-> "", value |-> Ord(str[1])]
    ELSE [exc |-> "TypeError", value |-> 0]

_resseq_finder(str) ==
    LET p == DigitRun(str)
    IN IF p # <<>> THEN [exc |-> "", value |-> ParseInt(p, 0)]
       ELSE LET o == OrdOfString(str)
            IN IF o.exc # "" THEN o ELSE [exc |-> "", value |-> o.value + 10000]

(***************************************************************************)
(* hbond_matrix                                                            *)
(***************************************************************************)
\* variant: the frame count of the first trajectory only
FrameCountOfFirst(trjs) == Len(trjs[1])

\* n_frames_tot += len(hbonds) over the trajectories
FrameCountTotal(trjs) == SumSeq([i \in 1..Len(trjs) |-> Len(trjs[i])])

\* every bond of every frame of every trajectory, in iteration order
AllBonds(trjs) == Concat(Concat(trjs))

\* "if x not in lst: lst.append(x)" over xs
RECURSIVE FirstSeen(_, _)
FirstSeen(lst, xs) ==
    IF xs = <<>> THEN lst
    ELSE FirstSeen(IF InSeq(Head(xs), lst) THEN lst ELSE Append(lst, Head(xs)), Tail(xs))

Column(bonds, c) == [i \in 1..Len(bonds) |-> bonds[i][c]]

\* variant: no sorting, the mutual labels stay in first-seen order
InsertAtEnd(srt, x) == Append(srt, x)

\* sorted(lst, key=_resseq_finder): stable, ascending; called only when no key raises
InsertByKey(srt, x) ==
    LET k == _resseq_finder(x).value
        p == Cardinality({i \in 1..Len(srt) : _resseq_finder(srt[i]).value <= k})
    IN SubSeq(srt, 1, p) \o <<x>> \o SubSeq(srt, p + 1, Len(srt))

RECURSIVE SortedByResseq(_, _)
SortedByResseq(srt, xs) ==
    IF xs = <<>> THEN srt ELSE SortedByResseq(InsertByKey(srt, Head(xs)), Tail(xs))

\* "for x in lst: if x not in srt: srt.append(x)"
RECURSIVE AppendMissing(_, _)
AppendMissing(srt, lst) ==
    IF lst = <<>> THEN srt
    ELSE AppendMissing(IF InSeq(Head(lst), srt) THEN srt ELSE Append(srt, Head(lst)),
                       Tail(lst))

\* hbond_matrix[i_donor, i_acceptor] += 1 for every bond
RECURSIVE Tally(_, _, _, _)
Tally(m, bonds, donors, acceptors) ==
    IF bonds = <<>> THEN m
    ELSE LET hb == Head(bonds)
             i == IndexOf(donors, hb[1])
             j == IndexOf(acceptors, hb[2])
         IN Tally([m EXCEPT ![i][j] = @ + 1], Tail(bonds), donors, acceptors)

\* hbond_matrix / n_frames_tot
Normalize(m, n) ==
    [i \in DOMAIN m |-> [j \in DOMAIN m[i] |-> [num |-> m[i][j], den |-> n]]]

hbond_matrix(trjs) ==
    LET n_frames_tot == FrameCountTotal(trjs)
        bonds == AllBonds(trjs)
        donors == FirstSeen(<<>>, Column(bonds, 1))
        acceptors == FirstSeen(<<>>, Column(bonds, 2))
        mutual == SelectSeq(donors, LAMBDA d : InSeq(d, acceptors))
    IN IF \E i \in 1..Len(mutual) : _resseq_finder(mutual[i]).exc # ""
       THEN [exc |-> "TypeError"]
       ELSE LET donors_sorted == AppendMissing(SortedByResseq(<<>>, mutual), donors)
                acceptors_sorted == AppendMissing(SortedByResseq(<<>>, mutual), acceptors)
                zeros == [i \in 1..Len(donors_sorted) |->
                             [j \in 1..Len(acceptors_sorted) |-> 0]]
                counts == Tally(zeros, bonds, donors_sorted, acceptors_sorted)
            IN [exc |-> "",
                matrix |-> Normalize(counts, n_frames_tot),
                donors |-> donors_sorted,
                acceptors |-> acceptors_sorted]

(***************************************************************************)
(* hbond_timeline                                                          *)
(***************************************************************************)
\* the (i_trj, i_frame, frame) triples of the two enumerate loops, 0-based
FrameList(trjs) ==
    Concat([i \in 1..Len(trjs) |->
               [k \in 1..Len(trjs[i]) |->
                   [i_trj |-> i - 1, i_frame |-> k - 1, frame |-> trjs[i][k]]]])

\* variant: the frame index within its own trajectory
GlobalIndexLocal(trjs, i_trj, i_frame) == i_frame

\* int(n_frames[:i_trj].sum() + i_frame)
GlobalIndex(trjs, i_trj, i_frame) ==
    SumSeq([i \in 1..i_trj |-> Len(trjs[i])]) + i_frame

DictHas(d, key) == \E i \in 1..Len(d) : d[i].key = key

DictGet(d, key) == d[CHOOSE i \in 1..Len(d) : d[i].key = key].arr

DictKeys(d) == [i \in 1..Len(d) |-> d[i].key]

\* "if key not in d: d[key] = np.zeros(n, dtype=int)" then "d[key][g] += 1"
Bump(d, key, g, n) ==
    LET d1 == IF DictHas(d, key) THEN d
              ELSE Append(d, [key |-> key, arr |-> [x \in 1..n |-> 0]])
    IN [i \in 1..Len(d1) |->
           IF d1[i].key = key
           THEN [d1[i] EXCEPT !.arr = [@ EXCEPT ![g + 1] = @ + 1]]
           ELSE d1[i]]

RECURSIVE BumpAll(_, _, _, _)
BumpAll(d, keys, g, n) ==
    IF keys = <<>> THEN d ELSE BumpAll(Bump(d, Head(keys), g, n), Tail(keys), g, n)

RECURSIVE TimelineLoop(_, _, _, _, _, _)
TimelineLoop(fl, trjs, str, n, donates_to, accepts_from) ==
    IF fl = <<>> THEN [donates_to |-> donates_to, accepts_from |-> accepts_from]
    ELSE LET f == Head(fl)
             g == GlobalIndex(trjs, f.i_trj, f.i_frame)
             don_to_frame == SelectSeq(f.frame, LAMBDA hb : hb[1] = str)
             acc_from_frame == SelectSeq(f.frame, LAMBDA hb : hb[2] = str)
         IN TimelineLoop(Tail(fl), trjs, str, n,
                         BumpAll(donates_to, Column(don_to_frame, 2), g, n),
                         BumpAll(accepts_from, Column(acc_from_frame, 1), g, n))

\* n_frames_tot of hbond_timeline: the sum of n_frames[i_trj] = len(hbonds)
TimelineFrameCount(trjs) == SumSeq([i \in 1..Len(trjs) |-> Len(trjs[i])])

hbond_timeline(trjs, str) ==
    TimelineLoop(FrameList(trjs), trjs, str, TimelineFrameCount(trjs), <<>>, <<>>)

(***************************************************************************)
(* hbond_most_frequent                                                     *)
(***************************************************************************)
\* variant: the number of bond events
count_events(arr) == SumSeq(arr)

\* np.count_nonzero(arr)
count_nonzero(arr) == Cardinality({i \in 1..Len(arr) : arr[i] # 0})

\* sorted(items, key=frequency, reverse=True): stable, descending
InsertByFreq(srt, x) ==
    LET p == Cardinality({i \in 1..Len(srt) : srt[i].freq.num >= x.freq.num})
    IN SubSeq(srt, 1, p) \o <<x>> \o SubSeq(srt, p + 1, Len(srt))

RECURSIVE SortedByFreq(_, _)
SortedByFreq(srt, xs) ==
    IF xs = <<>> THEN srt ELSE SortedByFreq(InsertByFreq(srt, Head(xs)), Tail(xs))

Frequencies(d, n) ==
    [i \in 1..Len(d) |->
        [key |-> d[i].key, freq |-> [num |-> count_nonzero(d[i].arr), den |-> n]]]

\* variant: a lookup that fails when either dict is empty
FirstValueRaisesEither(donates_to, accepts_from) == donates_to = <<>> \/ accepts_from = <<>>

\* list(donates_to.values())[0] raises IndexError on an empty dict
FirstValueRaises(donates_to, accepts_from) == donates_to = <<>>

hbond_most_frequent(trjs, str) ==
    LET tl == hbond_timeline(trjs, str)
    IN IF FirstValueRaises(tl.donates_to, tl.accepts_from) THEN [exc |-> "IndexError"]
       ELSE LET n_frames_tot == Len(tl.donates_to[1].arr)
            IN [exc |-> "",
                donors_frequency |->
                    SortedByFreq(<<>>, Frequencies(tl.accepts_from, n_frames_tot)),
                acceptors_frequency |->
                    SortedByFreq(<<>>, Frequencies(tl.donates_to, n_frames_tot))]


(***************************************************************************)
(* The topology collaborator (mdtraj), as fixed tables.  Atom and residue  *)
(* indices are 0-based as in the code; table positions are index + 1.      *)
(***************************************************************************)
\* t.top of the labelled (reduced) trajectory: t.top.atom(idx)
TopAtoms ==
    <<[resname |-> <<"H", "O", "H">>, resSeq |-> 1, resindex |-> 0, element |-> <<"O">>,
       is_water |-> TRUE, is_sidechain |-> FALSE],
      [resname |-> <<"A", "L", "A">>, resSeq |-> 10, resindex |-> 1, element |-> <<"N">>,
       is_water |-> FALSE, is_sidechain |-> FALSE],
      [resname |-> <<"S", "E", "R">>, resSeq |-> 11, resindex |-> 2, element |-> <<"O">>,
       is_water |-> FALSE, is_sidechain |-> TRUE],
      [resname |-> <<"H", "O", "H">>, resSeq |-> 12, resindex |-> 3, element |-> <<"O">>,
       is_water |-> TRUE, is_sidechain |-> FALSE],
      [resname |-> <<"H", "O", "H">>, resSeq |-> 12, resindex |-> 3, element |-> <<"H">>,
       is_water |-> TRUE, is_sidechain |-> FALSE]>>

TopAtom(idx) == TopAtoms[idx + 1]

\* t.top.select('is_sidechain'), t.top.select('is_water'): ascending atom indices
SelectSidechain ==
    SelectSeq([i \in 1..Len(TopAtoms) |-> i - 1], LAMBDA x : TopAtom(x).is_sidechain)

SelectWater ==
    SelectSeq([i \in 1..Len(TopAtoms) |-> i - 1], LAMBDA x : TopAtom(x).is_water)

\* [r.index for r in t_red.top.residues if r.is_water]
ReducedWaterResidues ==
    FirstSeen(<<>>, [i \in 1..Len(SelectWater) |-> TopAtom(SelectWater[i]).resindex])

\* t.top.atom(x).residue.index in the whole trajectory: three-atom waters
WholeAtomResidue == <<0, 0, 0, 1, 1, 1, 2, 2, 2>>

(***************************************************************************)
(* map_w_to_index.  A numpy array is [dtype, vals]; the elements of a      *)
(* float array are counted in halves (vals[i] = 7 is 3.5), so that         *)
(* astype('int') truncates.                                                *)
(***************************************************************************)
\* arr.astype('int'): a new integer array, truncated toward zero
AsTypeInt(arr) ==
    IF arr.dtype = "int" THEN arr
    ELSE [dtype |-> "int", vals |-> [i \in 1..Len(arr.vals) |-> arr.vals[i] \div 2]]

\* "for key in atom_mapping: atom_mapping[key] = atom_mapping[key].astype('int')"
EnforceInt(mapping) ==
    [i \in 1..Len(mapping) |-> [key |-> mapping[i].key, arr |-> AsTypeInt(mapping[i].arr)]]

\* wrid_letters[wl]
ResidueOfAtoms(arr) == [i \in 1..Len(arr.vals) |-> WholeAtomResidue[arr.vals[i] + 1]]

\* np.where(wrid_whole[i_frame] == wrid)
WherePositions(row, wrid) == SelectSeq([i \in 1..Len(row) |-> i - 1], LAMBDA x : row[x + 1] = wrid)

\* variant: the whole-trajectory index found at the position
ReducedIndexAtWhole(wrid_red, row, res_idx) == row[res_idx + 1]

\* wrid_red[res_idx]
ReducedIndexAt(wrid_red, row, res_idx) == wrid_red[res_idx + 1]

\* one (letter code, frame) step of the inner loop
MapEntry(wrid, row, wrid_red) ==
    IF InSeq(wrid, row)
    THEN LET res_idx == WherePositions(row, wrid)
         IN IF Len(res_idx) = 1
            THEN [exc |-> "", value |-> ReducedIndexAt(wrid_red, row, res_idx[1])]
            ELSE [exc |-> "ValueError", value |-> 0]
    ELSE [exc |-> "", value |-> 0]

\* the value returned (or the exception raised) for the coerced mapping
map_w_to_index(mapping, whole, wrid_red, n_frames) ==
    LET wrid_letters == [i \in 1..Len(mapping) |-> ResidueOfAtoms(mapping[i].arr)]
        entry(i, f) == MapEntry(wrid_letters[i][f], whole[f], wrid_red)
    IN IF \E i \in 1..Len(mapping) : \E f \in 1..n_frames : entry(i, f).exc # ""
       THEN [exc |-> "ValueError"]
       ELSE [exc |-> "",
             mapping_res |->
                 [i \in 1..Len(mapping) |->
                     [key |-> mapping[i].key,
                      arr |-> [f \in 1..n_frames |-> entry(i, f).value]]]]

(***************************************************************************)
(* convert_hb_atom and hbond_to_string.  An optional argument is <<>>      *)
(* (None) or <<value>>; idx is [kind |-> "int" or "str", val |-> ...].     *)
(***************************************************************************)
\* variant: without the test for the sentinel 0
LetterMatchesAnyIndex(w_id, a) == w_id = a.resindex

\* "w_id == a.residue.index and w_id != 0"
LetterMatches(w_id, a) == w_id = a.resindex /\ w_id # 0

\* "for wl in wlet_mapping: ... s = wl": the last matching letter code wins
RECURSIVE ScanLetters(_, _, _, _)
ScanLetters(str, mapping, a, i_frame) ==
    IF mapping = <<>> THEN str
    ELSE LET w_id == Head(mapping).arr[i_frame + 1]
         IN ScanLetters(IF LetterMatches(w_id, a) THEN Head(mapping).key ELSE str,
                        Tail(mapping), a, i_frame)

DefaultLabel(a, role) == a.resname \o IntToStr(a.resSeq) \o <<role>> \o <<"-">> \o a.element

\* "if wlet_mapping:" is false for None and for an empty dict
Truthy(opt) == opt # <<>> /\ opt[1] # <<>>

\* the if / elif / else over water_ids and sidechain_ids
RoleLabel(a, in_water, in_sidechain, wlet, i_frame) ==
    IF in_water
    THEN IF Truthy(wlet) THEN ScanLetters(DefaultLabel(a, "w"), wlet[1], a, i_frame)
         ELSE DefaultLabel(a, "w")
    ELSE IF in_sidechain THEN DefaultLabel(a, "s")
    ELSE DefaultLabel(a, "b")

convert_hb_atom(idx, sidechain_ids, water_ids, wlet, i_frame) ==
    IF idx.kind = "str" THEN idx.val
    ELSE LET sc == IF sidechain_ids = <<>> THEN SelectSidechain ELSE sidechain_ids[1]
             wa == IF water_ids = <<>> THEN SelectWater ELSE water_ids[1]
         IN RoleLabel(TopAtom(idx.val), InSeq(idx.val, wa), InSeq(idx.val, sc), wlet, i_frame)

\* one frame: columns 0 and 2 converted and stacked; i_frame is passed only with a mapping
FrameToString(frame, wlet, i_frame) ==
    [b \in 1..Len(frame) |->
        <<convert_hb_atom([kind |-> "int", val |-> frame[b][1]], <<SelectSidechain>>,
                          <<SelectWater>>, IF Truthy(wlet) THEN wlet ELSE <<>>, i_frame),
          convert_hb_atom([kind |-> "int", val |-> frame[b][3]], <<SelectSidechain>>,
                          <<SelectWater>>, IF Truthy(wlet) THEN wlet ELSE <<>>, i_frame)>>]

hbond_to_string(hb, wlet) == [k \in 1..Len(hb) |-> FrameToString(hb[k], wlet, k - 1)]


(***************************************************************************)
(* Labelled inputs: labels, bonds and trajectories.                        *)
(***************************************************************************)
LabA5 == <<"A", "5", "b", "-", "N">>

LabB2 == <<"B", "2", "s", "-", "O">>

LabW == <<"W", "1", "0", "0", "9", "8", "w", "-", "O">>

Lab_a == <<"a">>

Lab_wa == <<"w", "a">>

BondPairs ==
    {<<LabA5, LabB2>>, <<LabB2, LabA5>>, <<Lab_a, LabB2>>, <<LabB2, Lab_a>>,
     <<Lab_wa, LabB2>>, <<LabB2, Lab_wa>>, <<LabW, Lab_a>>, <<Lab_a, LabW>>}

Participants == {LabB2, Lab_a}

\* n frames holding the bonds b, bond i in frame fi[i]
FramesOf(n, b, fi) ==
    [k \in 1..n |->
        LET idx == {i \in 1..Len(b) : fi[i] = k}
        IN IF idx = {} THEN <<>> ELSE SubSeq(b, SetMin(idx), SetMax(idx))]

\* one trajectory holding the frames F, or two trajectories split after frame k
TrjsOf(F, single, k) ==
    IF single THEN <<F>> ELSE <<SubSeq(F, 1, k), SubSeq(F, k + 1, Len(F))>>

DefaultTrjs == <<<<<<<<LabB2, LabA5>>>>, <<>>>>>>

(***************************************************************************)
(* Inputs of the remapping and labelling calls.                            *)
(***************************************************************************)
LetterA == <<"a">>

LetterW1 == <<"w", "1">>

\* key orders of an insertion-ordered dict over the letter codes
LetterOrders == {<<>>, <<LetterA>>, <<LetterW1>>, <<LetterA, LetterW1>>, <<LetterW1, LetterA>>}

\* oxygen atoms of the whole trajectory's waters
OxygenAtoms == {0, 3, 6}

ArraysOver(vals, dtype, scale) ==
    {[dtype |-> dtype, vals |-> [i \in 1..NFrames |-> scale * v[i]]] : v \in [1..NFrames -> vals]}

DictsOver(keys, arrays) ==
    {[i \in 1..Len(keys) |-> [key |-> keys[i], arr |-> a[i]]] : a \in [1..Len(keys) -> arrays]}

AtomMappingInputs ==
    UNION {DictsOver(keys, ArraysOver(OxygenAtoms, "int", 1))
           \cup DictsOver(keys, ArraysOver(OxygenAtoms, "float", 2)) :
           keys \in {<<>>, <<LetterA>>, <<LetterA, LetterW1>>}}

\* rows of the loaded index table: whole-trajectory residue indices of the
\* waters kept in the reduced trajectory, one column per reduced water
WridRows == {<<0, 1>>, <<1, 2>>, <<2, 0>>, <<1, 1>>}

WridWholeInputs == [1..NFrames -> WridRows]

\* residue indices of the reduced trajectory held by a letter code (0: absent)
WletArrays == {[i \in 1..NFrames |-> v[i]] : v \in [1..NFrames -> {0, 1, 3}]}

WletDicts ==
    UNION {{[i \in 1..Len(keys) |-> [key |-> keys[i], arr |-> a[i]]] :
               a \in [1..Len(keys) -> WletArrays]} : keys \in LetterOrders}

WletMappingInputs == {<<>>} \cup {<<d>> : d \in WletDicts}

\* mdtraj rows [donor, hydrogen, acceptor]
RawFrames == {<<>>, <<<<3, 4, 2>>>>, <<<<3, 4, 2>>, <<1, 4, 0>>>>}

HbondsInputs == [1..NFrames -> RawFrames]

IdxInputs ==
    {[kind |-> "int", val |-> x] : x \in 0..3} \cup {[kind |-> "str", val |-> LabB2]}

SidechainIdsInputs == {<<>>, <<SelectSidechain>>}

WaterIdsInputs == {<<>>, <<<<0, 2, 3, 4>>>>}

DefaultAtomMapping ==
    <<[key |-> LetterA, arr |-> [dtype |-> "int", vals |-> [i \in 1..NFrames |-> 3]]]>>

DefaultWridWhole == [i \in 1..NFrames |-> <<0, 1>>]

DefaultWletMapping == <<<<[key |-> LetterA, arr |-> [i \in 1..NFrames |-> 3]]>>>>

(***************************************************************************)
(* Calls on labelled trajectories.  The program is single-threaded and     *)
(* synchronous: a call is made when no call is in progress, and the caller *)
(* takes its result before the next call.                                  *)
(***************************************************************************)
Return ==
    /\ pc # "start"
    /\ pc' = "start"
    /\ ret' = [exc |-> ""]
    /\ UNCHANGED <<hbond_trjs, atom_mapping, wrid_whole, wlet_mapping>>

CallHbondMatrix ==
    /\ pc = "start"
    /\ pc' = "hbond_matrix"
    /\ ret' = hbond_matrix(hbond_trjs)
    /\ UNCHANGED <<hbond_trjs, atom_mapping, wrid_whole, wlet_mapping>>

CallHbondTimeline ==
    \E str \in Participants :
        /\ pc = "start"
        /\ pc' = "hbond_timeline"
        /\ ret' = [s |-> str] @@ hbond_timeline(hbond_trjs, str)
        /\ UNCHANGED <<hbond_trjs, atom_mapping, wrid_whole, wlet_mapping>>

CallHbondMostFrequent ==
    \E str \in Participants :
        /\ pc = "start"
        /\ pc' = "hbond_most_frequent"
        /\ ret' = [s |-> str] @@ hbond_most_frequent(hbond_trjs, str)
        /\ UNCHANGED <<hbond_trjs, atom_mapping, wrid_whole, wlet_mapping>>

NextHb == CallHbondMatrix \/ CallHbondTimeline \/ CallHbondMostFrequent \/ Return

InitHb ==
    /\ pc = "start"
    /\ ret = [exc |-> ""]
    /\ \E n \in 0..MaxFrames, m \in 0..MaxBonds, single \in BOOLEAN :
           \E b \in [1..m -> BondPairs], fi \in [1..m -> 1..n], k \in 0..n :
               /\ \A i \in 1..(m - 1) : fi[i] <= fi[i + 1]
               /\ single => k = 0
               /\ hbond_trjs = TrjsOf(FramesOf(n, b, fi), single, k)
    /\ atom_mapping = DefaultAtomMapping
    /\ wrid_whole = DefaultWridWhole
    /\ wlet_mapping = DefaultWletMapping

SpecHb == InitHb /\ [][NextHb]_vars

(***************************************************************************)
(* Calls of the remapping and labelling operations.                        *)
(***************************************************************************)
\* the dict entries are rebound before anything can raise
CallMapWToIndex ==
    /\ pc = "start"
    /\ pc' = "map_w_to_index"
    /\ atom_mapping' = EnforceInt(atom_mapping)
    /\ ret' = [atom_mapping |-> atom_mapping]
              @@ map_w_to_index(atom_mapping', wrid_whole, ReducedWaterResidues, NFrames)
    /\ UNCHANGED <<hbond_trjs, wrid_whole, wlet_mapping>>

CallConvertHbAtom ==
    \E idx \in IdxInputs, sc \in SidechainIdsInputs, wa \in WaterIdsInputs,
       i_frame \in 0..(NFrames - 1) :
        /\ pc = "start"
        /\ pc' = "convert_hb_atom"
        /\ ret' = [idx |-> idx, sidechain_ids |-> sc, water_ids |-> wa, i_frame |-> i_frame,
                   s |-> convert_hb_atom(idx, sc, wa, wlet_mapping, i_frame)]
        /\ UNCHANGED <<hbond_trjs, atom_mapping, wrid_whole, wlet_mapping>>

CallHbondToString ==
    \E hb \in HbondsInputs :
        /\ pc = "start"
        /\ pc' = "hbond_to_string"
        /\ ret' = [hbonds |-> hb, hbonds_new |-> hbond_to_string(hb, wlet_mapping)]
        /\ UNCHANGED <<hbond_trjs, atom_mapping, wrid_whole, wlet_mapping>>

NextMap == CallMapWToIndex \/ Return

NextLabel == CallConvertHbAtom \/ CallHbondToString \/ Return

InitMap ==
    /\ pc = "start"
    /\ ret = [exc |-> ""]
    /\ hbond_trjs = DefaultTrjs
    /\ atom_mapping \in AtomMappingInputs
    /\ wrid_whole \in WridWholeInputs
    /\ wlet_mapping = DefaultWletMapping

InitLabel ==
    /\ pc = "start"
    /\ ret = [exc |-> ""]
    /\ hbond_trjs = DefaultTrjs
    /\ atom_mapping = DefaultAtomMapping
    /\ wrid_whole = DefaultWridWhole
    /\ wlet_mapping \in WletMappingInputs

SpecMap == InitMap /\ [][NextMap]_vars

SpecLabel == InitLabel /\ [][NextLabel]_vars

Init == InitHb \/ InitMap \/ InitLabel

Next ==
    \/ CallHbondMatrix
    \/ CallHbondTimeline
    \/ CallHbondMostFrequent
    \/ CallMapWToIndex
    \/ CallConvertHbAtom
    \/ CallHbondToString
    \/ Return

Spec == Init /\ [][Next]_vars

(***************************************************************************)
(* Reference quantities of the properties, read directly off the input.    *)
(***************************************************************************)
\* <<i, k, b>>: bond b of frame k of trajectory i
BondOccs(trjs) ==
    UNION {UNION {{<<i, k, b>> : b \in 1..Len(trjs[i][k])} : k \in 1..Len(trjs[i])} :
           i \in 1..Len(trjs)}

FrameOccs(trjs) == UNION {{<<i, k>> : k \in 1..Len(trjs[i])} : i \in 1..Len(trjs)}

BondAt(trjs, o) == trjs[o[1]][o[2]][o[3]]

TotalFrames(trjs) == Cardinality(FrameOccs(trjs))

\* number of bonds (d, a) in frame k of trajectory i
BondsInFrame(trjs, i, k, d, a) ==
    Cardinality({b \in 1..Len(trjs[i][k]) : trjs[i][k][b] = <<d, a>>})

\* frames before frame k of trajectory i, in input order
FramesBefore(trjs, i, k) ==
    Cardinality({f \in FrameOccs(trjs) : f[1] < i \/ (f[1] = i /\ f[2] < k)})

SeenDonors(trjs) == {BondAt(trjs, o)[1] : o \in BondOccs(trjs)}

SeenAcceptors(trjs) == {BondAt(trjs, o)[2] : o \in BondOccs(trjs)}

OccBefore(o1, o2) ==
    \/ o1[1] < o2[1]
    \/ o1[1] = o2[1] /\ o1[2] < o2[2]
    \/ o1[1] = o2[1] /\ o1[2] = o2[2] /\ o1[3] < o2[3]

\* label x is first seen in column c before label y is
SeenBefore(trjs, c, x, y) ==
    \E o1 \in BondOccs(trjs) :
        /\ BondAt(trjs, o1)[c] = x
        /\ \A o2 \in BondOccs(trjs) : BondAt(trjs, o2)[c] = y => OccBefore(o1, o2)

NoDuplicates(q) == \A i, j \in 1..Len(q) : q[i] = q[j] => i = j

MatrixReturned == pc = "hbond_matrix" /\ ret.exc = ""

(***************************************************************************)
(* C1: every cell of the matrix returned by hbond_matrix, for input with   *)
(* at least one frame, lies in the closed interval [0,1].                  *)
(***************************************************************************)
C1_CellsInUnitInterval ==
    (MatrixReturned /\ TotalFrames(hbond_trjs) >= 1) =>
        \A i \in DOMAIN ret.matrix : \A j \in DOMAIN ret.matrix[i] :
            /\ ret.matrix[i][j].den > 0
            /\ 0 <= ret.matrix[i][j].num
            /\ ret.matrix[i][j].num <= ret.matrix[i][j].den

(***************************************************************************)
(* C2: hbond_matrix pools the trajectories: the cell of donor d and        *)
(* acceptor a equals the number of bond entries (d, a) over every frame of *)
(* every trajectory, divided by the sum of the trajectories' frame counts. *)
(***************************************************************************)
C2_PooledFrequency ==
    MatrixReturned =>
        \A i \in 1..Len(ret.donors) : \A j \in 1..Len(ret.acceptors) :
            LET n == Cardinality({o \in BondOccs(hbond_trjs) :
                                     BondAt(hbond_trjs, o) = <<ret.donors[i], ret.acceptors[j]>>})
            IN /\ ret.matrix[i][j].den > 0
               /\ ret.matrix[i][j].num * TotalFrames(hbond_trjs) = n * ret.matrix[i][j].den

\* two trajectories of different, non-zero lengths with a bond present
C2_Witness ==
    /\ MatrixReturned
    /\ Len(hbond_trjs) = 2
    /\ Len(hbond_trjs[1]) > 0
    /\ Len(hbond_trjs[2]) > Len(hbond_trjs[1])
    /\ \E i \in DOMAIN ret.matrix : \E j \in DOMAIN ret.matrix[i] : ret.matrix[i][j].num > 0

(***************************************************************************)
(* C3: the returned donors and acceptors lists have the canonical order:   *)
(* every label of the role exactly once; the mutual labels first in both   *)
(* lists in non-decreasing sort key; then the donor-only (acceptor-only)   *)
(* labels in first-seen order.                                             *)
(***************************************************************************)
CanonicalOrder(lst, seen, other, c) ==
    LET nm == Cardinality(seen \cap other)
    IN /\ NoDuplicates(lst)
       /\ Range(lst) = seen
       /\ \A i \in 1..Len(lst) : (i <= nm) <=> (lst[i] \in other)
       /\ \A i, j \in 1..nm :
              i < j => _resseq_finder(lst[i]).value <= _resseq_finder(lst[j]).value
       /\ \A i, j \in (nm + 1)..Len(lst) :
              i < j => SeenBefore(hbond_trjs, c, lst[i], lst[j])

C3_CanonicalOrder ==
    MatrixReturned =>
        /\ CanonicalOrder(ret.donors, SeenDonors(hbond_trjs), SeenAcceptors(hbond_trjs), 1)
        /\ CanonicalOrder(ret.acceptors, SeenAcceptors(hbond_trjs), SeenDonors(hbond_trjs), 2)

\* two mutual labels that the sort puts in the reverse of their first-seen order
C3_Witness ==
    /\ MatrixReturned
    /\ Len(ret.donors) >= 2
    /\ ret.donors[1] \in SeenAcceptors(hbond_trjs)
    /\ ret.donors[2] \in SeenAcceptors(hbond_trjs)
    /\ SeenBefore(hbond_trjs, 1, ret.donors[2], ret.donors[1])

(***************************************************************************)
(* C9: for every label without digits that occurs in both roles,           *)
(* hbond_matrix completes and places that label after every mutual label   *)
(* that contains a residue-sequence number, in both lists.                 *)
(***************************************************************************)
C9_LetterCodesSortLast ==
    pc = "hbond_matrix" =>
        \A x \in SeenDonors(hbond_trjs) \cap SeenAcceptors(hbond_trjs) :
            DigitRun(x) = <<>> =>
                /\ ret.exc = ""
                /\ \A y \in SeenDonors(hbond_trjs) \cap SeenAcceptors(hbond_trjs) :
                       DigitRun(y) # <<>> =>
                           /\ IndexOf(ret.donors, y) < IndexOf(ret.donors, x)
                           /\ IndexOf(ret.acceptors, y) < IndexOf(ret.acceptors, x)

(***************************************************************************)
(* C4: hbond_timeline uses global frame indexing: every array has the      *)
(* total frame count as length; donates_to[p] at the global index of frame *)
(* k of trajectory i holds the number of bonds (s, p) of that frame and    *)
(* accepts_from[p] the number of bonds (p, s); a partner is a key only if  *)
(* it has such a bond.                                                     *)
(***************************************************************************)
TimelineOf(d, partners, c) ==
    /\ NoDuplicates(DictKeys(d))
    /\ Range(DictKeys(d)) = partners
    /\ \A p \in partners :
           /\ Len(DictGet(d, p)) = TotalFrames(hbond_trjs)
           /\ \A f \in FrameOccs(hbond_trjs) :
                  DictGet(d, p)[FramesBefore(hbond_trjs, f[1], f[2]) + 1] =
                      IF c = 1 THEN BondsInFrame(hbond_trjs, f[1], f[2], ret.s, p)
                      ELSE BondsInFrame(hbond_trjs, f[1], f[2], p, ret.s)

AcceptorsOf(trjs, str) ==
    {BondAt(trjs, o)[2] : o \in {x \in BondOccs(trjs) : BondAt(trjs, x)[1] = str}}

DonorsOf(trjs, str) ==
    {BondAt(trjs, o)[1] : o \in {x \in BondOccs(trjs) : BondAt(trjs, x)[2] = str}}

C4_GlobalFrameIndexing ==
    pc = "hbond_timeline" =>
        /\ TimelineOf(ret.donates_to, AcceptorsOf(hbond_trjs, ret.s), 1)
        /\ TimelineOf(ret.accepts_from, DonorsOf(hbond_trjs, ret.s), 2)

\* a bond of s in the second trajectory, behind a non-empty first trajectory
C4_Witness ==
    /\ pc = "hbond_timeline"
    /\ Len(hbond_trjs) = 2
    /\ Len(hbond_trjs[1]) > 0
    /\ \E i \in 1..Len(ret.donates_to) :
           \E g \in (Len(hbond_trjs[1]) + 1)..TotalFrames(hbond_trjs) :
               ret.donates_to[i].arr[g] > 0

(***************************************************************************)
(* C5: hbond_most_frequent reports presence, not event counts: a partner's *)
(* frequency is the number of global frames with at least one bond with s  *)
(* in that direction, divided by the total frame count.                    *)
(***************************************************************************)
PresenceFrequency(fq, partners, c) ==
    /\ Range([i \in 1..Len(fq) |-> fq[i].key]) = partners
    /\ \A i \in 1..Len(fq) :
           LET p == fq[i].key
               present == {f \in FrameOccs(hbond_trjs) :
                              IF c = 1 THEN BondsInFrame(hbond_trjs, f[1], f[2], ret.s, p) > 0
                              ELSE BondsInFrame(hbond_trjs, f[1], f[2], p, ret.s) > 0}
           IN /\ fq[i].freq.den > 0
              /\ fq[i].freq.num * TotalFrames(hbond_trjs) = Cardinality(present) * fq[i].freq.den

C5_PresenceNotEvents ==
    (pc = "hbond_most_frequent" /\ ret.exc = "") =>
        /\ PresenceFrequency(ret.acceptors_frequency, AcceptorsOf(hbond_trjs, ret.s), 1)
        /\ PresenceFrequency(ret.donors_frequency, DonorsOf(hbond_trjs, ret.s), 2)

\* a partner bonded twice in one frame
C5_Witness ==
    /\ pc = "hbond_most_frequent"
    /\ ret.exc = ""
    /\ \E f \in FrameOccs(hbond_trjs) : \E p \in AcceptorsOf(hbond_trjs, ret.s) :
           BondsInFrame(hbond_trjs, f[1], f[2], ret.s, p) = 2

(***************************************************************************)
(* C6 as stated: if s never donates or s never accepts,                    *)
(* hbond_most_frequent fails with an index/lookup error.                   *)
(***************************************************************************)
C6_FailsWhenEitherDirectionEmpty ==
    (pc = "hbond_most_frequent"
     /\ (AcceptorsOf(hbond_trjs, ret.s) = {} \/ DonorsOf(hbond_trjs, ret.s) = {})) =>
        ret.exc = "IndexError"

(***************************************************************************)
(* C6 amended: hbond_most_frequent fails with an index error exactly when  *)
(* s never donates; when s donates and never accepts it returns, with an   *)
(* empty donors ranking.                                                   *)
(***************************************************************************)
C6_FailsIffNeverDonates ==
    pc = "hbond_most_frequent" =>
        /\ (ret.exc = "IndexError") <=> (AcceptorsOf(hbond_trjs, ret.s) = {})
        /\ (AcceptorsOf(hbond_trjs, ret.s) # {} /\ DonorsOf(hbond_trjs, ret.s) = {}) =>
               (ret.exc = "" /\ ret.donors_frequency = <<>>)

\* s donates and never accepts: the call returns
C6_Witness ==
    /\ pc = "hbond_most_frequent"
    /\ AcceptorsOf(hbond_trjs, ret.s) # {}
    /\ DonorsOf(hbond_trjs, ret.s) = {}
    /\ ret.exc = ""

(***************************************************************************)
(* C7: convert_hb_atom applies its rules in strict precedence: a water     *)
(* atom gets a letter code whose mapping entry for the frame equals the    *)
(* atom's residue index and is non-zero, when a mapping is supplied, else  *)
(* '<resname><resSeq>w-<element>'; a non-water sidechain atom gets         *)
(* '...s-...'; every other atom '...b-...'; no letter code goes to a       *)
(* non-water atom or through an entry equal to 0.  (With several matching  *)
(* letter codes the label is one of them.)  hbond_to_string labels every   *)
(* donor and acceptor this way with the index of its frame.                *)
(***************************************************************************)
\* '<resname><resSeq>' and '<element>' of atoms 0..4, written out
LabelStems ==
    <<<<"H", "O", "H", "1">>, <<"A", "L", "A", "1", "0">>, <<"S", "E", "R", "1", "1">>,
      <<"H", "O", "H", "1", "2">>, <<"H", "O", "H", "1", "2">>>>

LabelElements == <<"O", "N", "O", "O", "H">>

RoleText(x, role) == LabelStems[x + 1] \o <<role, "-", LabelElements[x + 1]>>

LettersFor(x, i_frame) ==
    IF wlet_mapping = <<>> THEN {}
    ELSE {wlet_mapping[1][i].key : i \in
             {j \in 1..Len(wlet_mapping[1]) :
                 /\ wlet_mapping[1][j].arr[i_frame + 1] = TopAtoms[x + 1].resindex
                 /\ wlet_mapping[1][j].arr[i_frame + 1] # 0}}

AllowedLabels(x, water, sidechain, i_frame) ==
    IF water
    THEN IF LettersFor(x, i_frame) # {} THEN LettersFor(x, i_frame) ELSE {RoleText(x, "w")}
    ELSE IF sidechain THEN {RoleText(x, "s")}
    ELSE {RoleText(x, "b")}

LetterCodes == IF wlet_mapping = <<>> THEN {} ELSE Range(DictKeys(wlet_mapping[1]))

C7_LabelPrecedence ==
    /\ (pc = "convert_hb_atom" /\ ret.idx.kind = "int") =>
           LET x == ret.idx.val
               water == IF ret.water_ids = <<>> THEN x \in {0, 3, 4}
                        ELSE x \in Range(ret.water_ids[1])
               sidechain == IF ret.sidechain_ids = <<>> THEN x = 2
                            ELSE x \in Range(ret.sidechain_ids[1])
           IN /\ ret.s \in AllowedLabels(x, water, sidechain, ret.i_frame)
              /\ ret.s \in LetterCodes => water
    /\ pc = "hbond_to_string" =>
           /\ Len(ret.hbonds_new) = Len(ret.hbonds)
           /\ \A k \in 1..Len(ret.hbonds) :
                  /\ Len(ret.hbonds_new[k]) = Len(ret.hbonds[k])
                  /\ \A b \in 1..Len(ret.hbonds[k]) : \A c \in 1..2 :
                         LET x == ret.hbonds[k][b][2 * c - 1]
                         IN ret.hbonds_new[k][b][c] \in
                                AllowedLabels(x, x \in {0, 3, 4}, x = 2, k - 1)

\* a water atom labelled by its letter code
C7_Witness ==
    /\ pc = "convert_hb_atom"
    /\ ret.idx.kind = "int"
    /\ ret.s = LetterW1
    /\ TopAtoms[ret.idx.val + 1].is_water

(***************************************************************************)
(* C8: map_w_to_index resolves each (letter code, frame): the residue      *)
(* index of the tracked atom occurring exactly once in the frame's         *)
(* whole-trajectory row gives the reduced trajectory's water-residue index *)
(* at that position; not occurring gives 0; occurring more than once in    *)
(* any frame aborts the whole call with an error and no mapping.           *)
(***************************************************************************)
\* positions of the tracked residue in the row (atom_mapping holds integers after the call)
Occurrences(i, f) ==
    {p \in 1..Len(wrid_whole[f]) :
        wrid_whole[f][p] = WholeAtomResidue[atom_mapping[i].arr.vals[f] + 1]}

C8_RemapResolution ==
    pc = "map_w_to_index" =>
        /\ (ret.exc # "") <=>
               \E i \in 1..Len(atom_mapping) : \E f \in 1..NFrames :
                   Cardinality(Occurrences(i, f)) > 1
        /\ ret.exc # "" => (ret.exc = "ValueError" /\ "mapping_res" \notin DOMAIN ret)
        /\ ret.exc = "" =>
               /\ DictKeys(ret.mapping_res) = DictKeys(atom_mapping)
               /\ \A i \in 1..Len(atom_mapping) : \A f \in 1..NFrames :
                      /\ Occurrences(i, f) = {} => ret.mapping_res[i].arr[f] = 0
                      /\ \A p \in Occurrences(i, f) :
                             ret.mapping_res[i].arr[f] = <<0, 3>>[p]

\* a tracked water found in the second column of the row
C8_Witness ==
    /\ pc = "map_w_to_index"
    /\ ret.exc = ""
    /\ \E i \in 1..Len(atom_mapping) : \E f \in 1..NFrames :
           Occurrences(i, f) = {2} /\ ret.mapping_res[i].arr[f] = 3

(***************************************************************************)
(* C10: every operation is a pure function of its inputs: no call changes  *)
(* a caller-supplied input (the atom_mapping dictionary, the water letter  *)
(* mapping, the hbond trajectory lists, the index table).                  *)
(***************************************************************************)
C10_InputsUnchanged ==
    [][/\ atom_mapping' = atom_mapping
       /\ wlet_mapping' = wlet_mapping
       /\ hbond_trjs' = hbond_trjs
       /\ wrid_whole' = wrid_whole]_vars

====
